---- MODULE Spec2Model ----
(***************************************************************************)
(* Model of the delegated credential manager (tokenManager): the          *)
(* per-identity token cache userTokenCache, its durable copy               *)
(* tokenCache.json, and the async function getDelegatedToken with its      *)
(* single suspension point per path (the await of refreshAccessToken).     *)
(*                                                                         *)
(* Time is counted in seconds (Date.now() / 1000): every quantity the code *)
(* adds to Date.now() is a whole multiple of 1000 ms.  A JWT is modelled   *)
(* by the claims the code reads from it (oid/sub and exp) plus a serial    *)
(* number standing for the rest of its bytes.  The token endpoint stamps   *)
(* the token it issues at the instant the awaiting call resumes.           *)
(***************************************************************************)
EXTENDS Integers, FiniteSets, Sequences, TLC

\* ---------------------------------------------------------------- bounds
MaxTime == 3600
MaxCalls == 2
MaxWriteFailures == 1
MaxRestarts == 1

\* ------------------------------------------------------ program constants
Margin == 60
FirstSightTtl == 3300

TickSteps == {1800}
Lifetimes == {30, 3600}
InitExps == {1000, 9000}
Users == {"u1"}
Slots == {1, 2}

SentinelId == "default-user"
Ids == Users \cup {SentinelId}

\* ----------------------------------------------------------------- tokens
\* kind "absent": header/body field missing; "opaque": a string that does
\* not decode as a JWT; "jwt": decodes, with subject sub and expiry exp.
NoToken == [kind |-> "absent", sub |-> "", exp |-> 0, n |-> 0]
OpaqueToken == [kind |-> "opaque", sub |-> "", exp |-> 0, n |-> 0]
Jwt(u, e, k) == [kind |-> "jwt", sub |-> u, exp |-> e, n |-> k]

NoRefresh == [kind |-> "absent", owner |-> "", n |-> 0]
RefreshOf(u, k) == [kind |-> "rt", owner |-> u, n |-> k]

\* credentials handed out by the external authorization-code exchange
InitAccess == {Jwt(u, e, 0) : u \in Users, e \in InitExps} \cup {OpaqueToken}
InitRefresh == {RefreshOf(u, 0) : u \in Users}

VARIABLES now, userTokenCache, tokenFile, saveOk, issued, calls, started, writeFailures,
          appTokenCache, appCalls, boot, resolution, request

vars == <<now, userTokenCache, tokenFile, saveOk, issued, calls, started, writeFailures,
          appTokenCache, appCalls, boot, resolution, request>>

\* ------------------------------------------------------- pure functions
getUserIdFromTokenSub(token) == token.sub

\* getUserIdFromToken: decoded.oid || decoded.sub || 'default-user'
getUserIdFromToken(token) ==
  IF token.kind = "jwt" /\ token.sub # "" THEN token.sub ELSE SentinelId

isTokenExpiredNever(token, t) == FALSE

isTokenExpiredStrict(token, t) ==
  IF token.kind = "jwt" THEN t >= token.exp ELSE TRUE

\* isTokenExpired: now >= exp * 1000; undecodable counts as not expired
isTokenExpired(token, t) ==
  IF token.kind = "jwt" THEN t >= token.exp ELSE FALSE

\* new Date(ms).toISOString(): a UTC timestamp string
ToISOString(t) == [iso |-> t]

DateParseLocal(s) == s.iso + 3600

\* new Date(iso).getTime()
DateParse(s) == s.iso

saveTokenCacheDateOnly(cache) ==
  [id \in DOMAIN cache |->
     [accessToken |-> cache[id].accessToken,
      refreshToken |-> cache[id].refreshToken,
      expiresAt |-> ToISOString((cache[id].expiresAt \div 86400) * 86400)]]

\* saveTokenCache: the object written to tokenCache.json
saveTokenCache(cache) ==
  [id \in DOMAIN cache |->
     [accessToken |-> cache[id].accessToken,
      refreshToken |-> cache[id].refreshToken,
      expiresAt |-> ToISOString(cache[id].expiresAt)]]

\* loadTokenCache: the Map rebuilt from tokenCache.json
loadTokenCache(file) ==
  [id \in DOMAIN file |->
     [accessToken |-> file[id].accessToken,
      refreshToken |-> file[id].refreshToken,
      expiresAt |-> DateParse(file[id].expiresAt)]]

EmptyMap == [id \in {} |-> 0]

MapSetMerge(cache, id, rec) ==
  [k \in DOMAIN cache \cup {id} |->
     IF k = id
     THEN IF id \in DOMAIN cache
          THEN [rec EXCEPT !.refreshToken = cache[id].refreshToken]
          ELSE rec
     ELSE cache[k]]

MapDeleteAll(cache, id) == EmptyMap

\* Map.prototype.set / delete
MapSet(cache, id, rec) ==
  [k \in DOMAIN cache \cup {id} |-> IF k = id THEN rec ELSE cache[k]]

MapDelete(cache, id) ==
  [k \in DOMAIN cache \ {id} |-> cache[k]]

\* refreshAccessToken, lines 292-296: the object built from the response
refreshAccessToken(refreshToken, response) ==
  [accessToken |-> response.access_token,
   refreshToken |-> IF response.refresh_token.kind # "absent"
                    THEN response.refresh_token ELSE refreshToken,
   expiresIn |-> response.expires_in]

RefreshedRecordSwapped(refreshedTokens, t) ==
  [accessToken |-> refreshedTokens.accessToken,
   refreshToken |-> refreshedTokens.refreshToken,
   expiresAt |-> t + (Margin - refreshedTokens.expiresIn)]

\* the record put in the cache after a refresh
RefreshedRecord(refreshedTokens, t) ==
  [accessToken |-> refreshedTokens.accessToken,
   refreshToken |-> refreshedTokens.refreshToken,
   expiresAt |-> t + (refreshedTokens.expiresIn - Margin)]

FirstSightRecordNoRefresh(accessToken, refreshToken, t) ==
  [accessToken |-> accessToken,
   refreshToken |-> NoRefresh,
   expiresAt |-> t + FirstSightTtl]

\* the record put in the cache on first sight of a refresh token
FirstSightRecord(accessToken, refreshToken, t) ==
  [accessToken |-> accessToken,
   refreshToken |-> refreshToken,
   expiresAt |-> t + FirstSightTtl]

CachedStillValidNever(cachedData, t) == FALSE

\* Date.now() < cachedData.expiresAt
CachedStillValid(cachedData, t) == t < cachedData.expiresAt

CachedResultSupplied(cachedData, accessToken) == accessToken

\* return cachedData.accessToken
CachedResult(cachedData, accessToken) == cachedData.accessToken

PassthroughResultChecked(accessToken, providedTokenExpired) ==
  IF providedTokenExpired THEN NoToken ELSE accessToken

\* return accessToken (the provided one, even if expired)
PassthroughResult(accessToken, providedTokenExpired) == accessToken

TokenToUseCached(refreshToken, cachedData) ==
  IF cachedData.refreshToken.kind # "absent" THEN cachedData.refreshToken ELSE refreshToken

\* refreshToken || cachedData.refreshToken
TokenToUse(refreshToken, cachedData) ==
  IF refreshToken.kind # "absent" THEN refreshToken ELSE cachedData.refreshToken

\* the token endpoint's answer to a refresh grant
Response(refreshToken, lifetime, rotate, t, k) ==
  [access_token |-> Jwt(refreshToken.owner, t + lifetime, k),
   refresh_token |-> IF rotate THEN RefreshOf(refreshToken.owner, k) ELSE NoRefresh,
   expires_in |-> lifetime]

NoResponse == Response(NoRefresh, 0, FALSE, 0, 0)
NoRecord == [accessToken |-> NoToken, refreshToken |-> NoRefresh, expiresAt |-> 0]

\* ------------------------------------------------------------ call state
\* A slot holds one request in progress.  A slot in state "done" shows the
\* outcome handed to the caller by the step just taken; the next step of
\* anything frees it.  prev, raced and rival are history: the outcome of the
\* call that returned right before this one was made, and whether another
\* call was refreshing the same stale record at the same time.
NoPrev ==
  [any |-> FALSE, accessToken |-> NoToken, refreshToken |-> NoRefresh,
   status |-> "none", result |-> NoToken, exchanges |-> 0, expires_in |-> 0]

IdleCall ==
  [pc |-> "idle",
   accessToken |-> NoToken, refreshToken |-> NoRefresh,
   userId |-> "", providedTokenExpired |-> FALSE,
   tokenToUse |-> NoRefresh,
   t0 |-> 0, via |-> "none",
   exchanges |-> 0, response |-> NoResponse, wrote |-> NoRecord,
   status |-> "none", result |-> NoToken,
   prev |-> NoPrev, raced |-> FALSE, rival |-> "none"]

InFlight(c) == calls[c].pc \in {"await1", "await2", "await3"}

Moved(call) ==
  IF call.pc = "done" THEN IdleCall ELSE [call EXCEPT !.prev = NoPrev]

Others(c) == [d \in Slots |-> IF d = c THEN calls[d] ELSE Moved(calls[d])]

Settled == [d \in Slots |-> Moved(calls[d])]

\* the outcome of the call that returned in the very last step, if any
Predecessor ==
  IF \E d \in Slots : calls[d].pc = "done"
  THEN LET p == calls[CHOOSE d \in Slots : calls[d].pc = "done"]
       IN [any |-> TRUE, accessToken |-> p.accessToken,
           refreshToken |-> p.refreshToken, status |-> p.status,
           result |-> p.result, exchanges |-> p.exchanges,
           expires_in |-> p.response.expires_in]
  ELSE NoPrev

\* the racing calls that are told of the outcome of call c
Informed(c, cs, outcome) ==
  [d \in Slots |->
     IF d # c /\ calls[c].raced /\ cs[d].raced /\ cs[d].userId = calls[c].userId
     THEN [cs[d] EXCEPT !.rival = outcome]
     ELSE cs[d]]

\* another call is already awaiting the refresh of the same stale record
Racing(c, userId) ==
  \E d \in Slots \ {c} : calls[d].pc = "await2" /\ calls[d].userId = userId

\* credentials a caller can hold: the initial ones and any the manager
\* has handed back
AccessPool ==
  InitAccess \cup {NoToken} \cup {userTokenCache[id].accessToken : id \in DOMAIN userTokenCache}
RefreshPool ==
  InitRefresh \cup {NoRefresh} \cup {userTokenCache[id].refreshToken : id \in DOMAIN userTokenCache}

\* tokenCache.json as the previous run of the process may have left it:
\* absent, or holding the record of a refresh made PriorLifetime - Margin
\* seconds before that record goes stale
PriorStale == 1500
PriorLifetime == 3600
PriorRecord ==
  RefreshedRecord(
    [accessToken |-> Jwt("u1", PriorStale + Margin, 0),
     refreshToken |-> RefreshOf("u1", 0),
     expiresIn |-> PriorLifetime],
    PriorStale + Margin - PriorLifetime)
PriorFiles ==
  {EmptyMap, saveTokenCache([id \in {"u1"} |-> PriorRecord])}

\* ------------------------------------------- service credential cache
\* let appTokenCache = { token: null, expiresAt: 0 }; a token is modelled by
\* its serial number, null by 0
NoAppToken == 0
EmptySlot == [token |-> NoAppToken, expiresAt |-> 0]

AppIdle ==
  [pc |-> "idle", t0 |-> 0, held |-> EmptySlot, exchanges |-> 0,
   granted |-> NoAppToken, expires_in |-> 0, status |-> "none", result |-> NoAppToken]

AppInFlight(c) == appCalls[c].pc = "await"

AppMoved(call) == IF call.pc = "done" THEN AppIdle ELSE call

AppOthers(c) == [d \in Slots |-> IF d = c THEN appCalls[d] ELSE AppMoved(appCalls[d])]

AppSettled == [d \in Slots |-> AppMoved(appCalls[d])]

\* the identifier resolver is idle
NoResolution ==
  [fn |-> "none", pc |-> "idle", input |-> <<>>, lookups |-> 0,
   status |-> "none", result |-> <<>>]

\* no HTTP request is being served
NoRequest == [pc |-> "idle"]

Init ==
  /\ now = 0
  /\ tokenFile \in PriorFiles
  /\ userTokenCache = loadTokenCache(tokenFile)
  /\ saveOk = TRUE
  /\ issued = 0
  /\ calls = [c \in Slots |-> IdleCall]
  /\ started = 0
  /\ writeFailures = 0
  /\ appTokenCache = EmptySlot
  /\ appCalls = [c \in Slots |-> AppIdle]
  /\ boot = [n |-> 0, loaded |-> EmptyMap]
  /\ resolution = NoResolution
  /\ request = NoRequest

\* saveTokenCache with its try/catch: a failed write leaves the file as it was
WriteFile(cache, writeOk) ==
  /\ writeOk \/ writeFailures < MaxWriteFailures
  /\ tokenFile' = IF writeOk THEN saveTokenCache(cache) ELSE tokenFile
  /\ saveOk' = writeOk
  /\ writeFailures' = IF writeOk THEN writeFailures ELSE writeFailures + 1

\* a path that never reaches saveTokenCache
NoWrite(writeOk) == writeOk /\ UNCHANGED <<tokenFile, saveOk, writeFailures>>

Returned(call, how, token) ==
  [call EXCEPT !.pc = "done", !.via = how, !.status = "ok", !.result = token]

Thrown(call) ==
  [call EXCEPT !.pc = "done", !.status = "error", !.result = NoToken]

AfterSaveRethrows(call, writeOk) ==
  IF writeOk THEN call ELSE Thrown(call)

\* the catch of saveTokenCache (lines 213-215) logs the error and returns:
\* the caller of saveTokenCache goes on as after a successful write
AfterSave(call, writeOk) == call

OnRefreshErrorRetry(call) ==
  IF call.exchanges < 2 THEN [call EXCEPT !.exchanges = @ + 1] ELSE Thrown(call)

\* the catch around the await of refreshAccessToken ends in a throw
\* (lines 382, 420, 454): the call is over
OnRefreshError(call) == Thrown(call)

\* getDelegatedToken from its entry to its first await or return
\* (lines 328-437, 458-460)
Start(c, accessToken, refreshToken, writeOk) ==
  /\ ~InFlight(c)
  /\ \A d \in Slots : d < c => InFlight(d)
  /\ started < MaxCalls
  /\ started' = started + 1
  /\ LET userId == getUserIdFromToken(accessToken)
         providedTokenExpired == isTokenExpired(accessToken, now)
         hasCached == userId \in DOMAIN userTokenCache
         cachedData == IF hasCached THEN userTokenCache[userId] ELSE NoRecord
         entered == [IdleCall EXCEPT !.accessToken = accessToken,
                                     !.refreshToken = refreshToken,
                                     !.userId = userId,
                                     !.providedTokenExpired = providedTokenExpired,
                                     !.t0 = now,
                                     !.prev = Predecessor]
         rec == FirstSightRecord(accessToken, refreshToken, now)
     IN
     IF accessToken.kind = "absent"
     THEN \* lines 351-354: return null
          /\ calls' = [Others(c) EXCEPT ![c] =
                         [entered EXCEPT !.pc = "done", !.via = "null",
                                         !.status = "null", !.userId = ""]]
          /\ UNCHANGED userTokenCache /\ NoWrite(writeOk)
     ELSE IF providedTokenExpired /\ refreshToken.kind # "absent"
     THEN \* lines 364-367
          /\ calls' = [Others(c) EXCEPT ![c] =
                         [entered EXCEPT !.pc = "await1", !.via = "immediate",
                                         !.tokenToUse = refreshToken,
                                         !.exchanges = @ + 1]]
          /\ UNCHANGED userTokenCache /\ NoWrite(writeOk)
     ELSE IF hasCached /\ CachedStillValid(cachedData, now)
     THEN \* lines 388-395
          /\ calls' = [Others(c) EXCEPT ![c] =
                         Returned(entered, "cached", CachedResult(cachedData, accessToken))]
          /\ UNCHANGED userTokenCache /\ NoWrite(writeOk)
     ELSE IF hasCached /\ TokenToUse(refreshToken, cachedData).kind # "absent"
     THEN \* lines 398-403
          /\ calls' = [d \in Slots |->
                         IF d = c
                         THEN [entered EXCEPT !.pc = "await2", !.via = "stale",
                                              !.tokenToUse = TokenToUse(refreshToken, cachedData),
                                              !.exchanges = @ + 1,
                                              !.raced = Racing(c, userId)]
                         ELSE [Others(c)[d] EXCEPT !.raced =
                                 @ \/ (calls[d].pc = "await2" /\ calls[d].userId = userId)]]
          /\ UNCHANGED userTokenCache /\ NoWrite(writeOk)
     ELSE IF refreshToken.kind # "absent"
     THEN IF ~providedTokenExpired
          THEN \* lines 428-437
               /\ userTokenCache' = MapSet(userTokenCache, userId, rec)
               /\ WriteFile(userTokenCache', writeOk)
               /\ calls' = [Others(c) EXCEPT ![c] =
                              [AfterSave(Returned(entered, "create", accessToken), writeOk)
                                 EXCEPT !.wrote = rec]]
          ELSE \* lines 439-442
               /\ calls' = [Others(c) EXCEPT ![c] =
                              [entered EXCEPT !.pc = "await3", !.via = "late",
                                              !.tokenToUse = refreshToken,
                                              !.exchanges = @ + 1]]
               /\ UNCHANGED userTokenCache /\ NoWrite(writeOk)
     ELSE \* lines 458-460
          /\ calls' = [Others(c) EXCEPT ![c] =
                         Returned(entered, "pass",
                                  PassthroughResult(accessToken, providedTokenExpired))]
          /\ UNCHANGED userTokenCache /\ NoWrite(writeOk)
  /\ UNCHANGED <<now, issued>>
  /\ appCalls' = AppSettled
  /\ UNCHANGED <<appTokenCache, boot, resolution, request>>

\* the await of refreshAccessToken resolves: lines 367-378, 403-414, 442-450
RefreshSucceeds(c, lifetime, rotate, writeOk) ==
  /\ InFlight(c)
  /\ LET call == calls[c]
         response == Response(call.tokenToUse, lifetime, rotate, now, issued + 1)
         refreshedTokens == refreshAccessToken(call.tokenToUse, response)
         rec == RefreshedRecord(refreshedTokens, now)
     IN
     /\ userTokenCache' = MapSet(userTokenCache, call.userId, rec)
     /\ WriteFile(userTokenCache', writeOk)
     /\ calls' = [Informed(c, Others(c), "ok") EXCEPT ![c] =
                    [AfterSave(Returned(call, call.via, refreshedTokens.accessToken), writeOk)
                       EXCEPT !.response = response, !.wrote = rec]]
  /\ issued' = issued + 1
  /\ UNCHANGED <<now, started>>
  /\ appCalls' = AppSettled
  /\ UNCHANGED <<appTokenCache, boot, resolution, request>>

\* the await of refreshAccessToken rejects: lines 379-382, 415-421, 451-454
RefreshFails(c, writeOk) ==
  /\ InFlight(c)
  /\ LET call == calls[c] IN
     /\ IF call.pc = "await2"
        THEN /\ userTokenCache' = MapDelete(userTokenCache, call.userId)
             /\ WriteFile(userTokenCache', writeOk)
        ELSE UNCHANGED userTokenCache /\ NoWrite(writeOk)
     /\ calls' = [Informed(c, Others(c), "error") EXCEPT ![c] = OnRefreshError(call)]
  /\ UNCHANGED <<now, issued, started>>
  /\ appCalls' = AppSettled
  /\ UNCHANGED <<appTokenCache, boot, resolution, request>>

\* clearUserToken, lines 466-470
clearUserToken(token, writeOk) ==
  /\ started < MaxCalls
  /\ started' = started + 1
  /\ userTokenCache' = MapDelete(userTokenCache, getUserIdFromToken(token))
  /\ WriteFile(userTokenCache', writeOk)
  /\ calls' = Settled
  /\ UNCHANGED <<now, issued>>
  /\ appCalls' = AppSettled
  /\ UNCHANGED <<appTokenCache, boot, resolution, request>>

\* the clock advances
Tick(d) ==
  /\ now + d <= MaxTime
  /\ now' = now + d
  /\ calls' = Settled
  /\ UNCHANGED <<userTokenCache, tokenFile, saveOk, issued, started, writeFailures>>
  /\ appCalls' = AppSettled
  /\ UNCHANGED <<appTokenCache, boot, resolution, request>>

Next ==
  \/ \E c \in Slots, a \in AccessPool, r \in RefreshPool, w \in BOOLEAN :
       Start(c, a, r, w)
  \/ \E c \in Slots, l \in Lifetimes, rot \in BOOLEAN, w \in BOOLEAN :
       RefreshSucceeds(c, l, rot, w)
  \/ \E c \in Slots, w \in BOOLEAN : RefreshFails(c, w)
  \/ \E a \in InitAccess, w \in BOOLEAN : clearUserToken(a, w)
  \/ \E d \in TickSteps : Tick(d)

Spec == Init /\ [][Next]_vars

\* -------------------------------------------------------- getAppToken
AppMargin == 60

AppSlotValidNoExpiry(slot, t) == slot.token # NoAppToken

\* appTokenCache.token && Date.now() < appTokenCache.expiresAt
AppSlotValid(slot, t) == slot.token # NoAppToken /\ t < slot.expiresAt

AppSlotFilledAbsolute(token, expires_in, t) ==
  [token |-> token, expiresAt |-> expires_in - AppMargin]

\* the slot after lines 236-238
AppSlotFilled(token, expires_in, t) ==
  [token |-> token, expiresAt |-> t + (expires_in - AppMargin)]

\* getAppToken from its entry to its return or its await (lines 221-234)
getAppTokenStart(c) ==
  /\ ~AppInFlight(c)
  /\ \A d \in Slots : d < c => AppInFlight(d)
  /\ started < MaxCalls
  /\ started' = started + 1
  /\ LET entered == [AppIdle EXCEPT !.t0 = now, !.held = appTokenCache] IN
     IF AppSlotValid(appTokenCache, now)
     THEN appCalls' = [AppOthers(c) EXCEPT ![c] =
                         [entered EXCEPT !.pc = "done", !.status = "ok",
                                         !.result = appTokenCache.token]]
     ELSE appCalls' = [AppOthers(c) EXCEPT ![c] =
                         [entered EXCEPT !.pc = "await", !.exchanges = @ + 1]]
  /\ calls' = Settled
  /\ UNCHANGED <<now, issued, appTokenCache>>
  /\ UNCHANGED <<userTokenCache, tokenFile, saveOk, writeFailures, boot, resolution, request>>

\* the client-credentials exchange answers: lines 236-241
AppExchangeSucceeds(c, lifetime) ==
  /\ AppInFlight(c)
  /\ appTokenCache' = AppSlotFilled(issued + 1, lifetime, now)
  /\ appCalls' = [AppOthers(c) EXCEPT ![c] =
                    [appCalls[c] EXCEPT !.pc = "done", !.status = "ok",
                                        !.granted = issued + 1,
                                        !.expires_in = lifetime,
                                        !.result = appTokenCache'.token]]
  /\ issued' = issued + 1
  /\ calls' = Settled
  /\ UNCHANGED <<now, started>>
  /\ UNCHANGED <<userTokenCache, tokenFile, saveOk, writeFailures, boot, resolution, request>>

\* the client-credentials exchange is rejected or times out: axios.post
\* throws out of getAppToken, which has no try/catch
AppExchangeFails(c) ==
  /\ AppInFlight(c)
  /\ appCalls' = [AppOthers(c) EXCEPT ![c] =
                    [appCalls[c] EXCEPT !.pc = "done", !.status = "error"]]
  /\ calls' = Settled
  /\ UNCHANGED <<now, issued, started, appTokenCache>>
  /\ UNCHANGED <<userTokenCache, tokenFile, saveOk, writeFailures, boot, resolution, request>>

NextApp ==
  \/ \E c \in Slots : getAppTokenStart(c)
  \/ \E c \in Slots, l \in Lifetimes : AppExchangeSucceeds(c, l)
  \/ \E c \in Slots : AppExchangeFails(c)
  \/ \E d \in TickSteps : Tick(d)

\* the service credential cache on its own
SpecApp == Init /\ [][NextApp]_vars

\* ------------------------------------------------------------- restart
\* The process is stopped and started again: the module is loaded anew,
\* userTokenCache = loadTokenCache() (line 219) and appTokenCache is empty
\* (lines 174-177); requests in progress are lost with the old process.
Restart ==
  /\ boot.n < MaxRestarts
  /\ userTokenCache' = loadTokenCache(tokenFile)
  /\ boot' = [n |-> boot.n + 1, loaded |-> userTokenCache']
  /\ calls' = [c \in Slots |-> IdleCall]
  /\ appTokenCache' = EmptySlot
  /\ appCalls' = [c \in Slots |-> AppIdle]
  /\ UNCHANGED <<now, tokenFile, saveOk, issued, started, writeFailures, resolution, request>>

\* requests served one at a time, across restarts of the process
NextRestart ==
  \/ \E a \in AccessPool, r \in RefreshPool, w \in BOOLEAN : Start(1, a, r, w)
  \/ \E l \in Lifetimes, rot \in BOOLEAN, w \in BOOLEAN : RefreshSucceeds(1, l, rot, w)
  \/ \E w \in BOOLEAN : RefreshFails(1, w)
  \/ \E a \in InitAccess, w \in BOOLEAN : clearUserToken(a, w)
  \/ \E d \in TickSteps : Tick(d)
  \/ Restart

SpecRestart == Init /\ [][NextRestart]_vars

NextCore == Next \/ NextApp

\* both credential caches of the process, running side by side
SpecCore == Init /\ [][NextCore]_vars

\* ----------------------------------------------------- identifier resolver
\* A string is the sequence of its characters.  null, undefined and "" are
\* all falsy for the guard !teamIdOrName and are modelled by the empty
\* string; a resolver's null result likewise.
NoId == <<>>

Rep(ch, n) == [i \in 1..n |-> ch]

\* String.prototype.toLowerCase on the characters used here
ToLowerCase(ch) ==
  CASE ch = "A" -> "a" [] ch = "B" -> "b" [] ch = "C" -> "c"
    [] ch = "D" -> "d" [] ch = "E" -> "e" [] ch = "F" -> "f"
    [] ch = "G" -> "g" [] ch = "Z" -> "z"
    [] OTHER -> ch

\* the character class [0-9a-f]
InClass(ch) ==
  ch \in {"0", "1", "2", "3", "4", "5", "6", "7", "8", "9",
          "a", "b", "c", "d", "e", "f"}

guidPatternCaseSensitive(s) ==
  /\ Len(s) = 36
  /\ \A i \in 1..Len(s) :
       IF i \in {9, 14, 19, 24} THEN s[i] = "-" ELSE InClass(s[i])

\* /^[0-9a-f]{8}-[0-9a-f]{4}-[0-9a-f]{4}-[0-9a-f]{4}-[0-9a-f]{12}$/i
guidPattern(s) ==
  /\ Len(s) = 36
  /\ \A i \in 1..Len(s) :
       IF i \in {9, 14, 19, 24} THEN s[i] = "-" ELSE InClass(ToLowerCase(s[i]))

\* the requests a find function sends to the directory, in order
\* (findTeamIdByName lines 16-29, findUserId lines 91-106)
Queries(fn, input) ==
  IF fn = "resolveTeamId"
  THEN <<"/me/joinedTeams", "/teams">>
  ELSE IF \E i \in 1..Len(input) : input[i] = "@"
       THEN <<"/users?mail", "/users?displayName", "/users/{id}">>
       ELSE <<"/users?displayName", "/users/{id}">>

\* requests sent inside the inner try, whose failure is ignored
Optional(query) == query \in {"/teams", "/users/{id}"}

\* the strings the resolvers are given: five groups of characters joined by
\* a separator, with the group lengths, one group's character and the
\* separator varied around the canonical shape, and some names
GroupLengths ==
  {<<8, 4, 4, 4, 12>>, <<8, 4, 4, 4, 11>>, <<9, 4, 4, 4, 12>>, <<8, 4, 4, 4, 13>>}
BaseChars == {"0", "c", "E"}
OddChars == {"9", "f", "A", "g", "Z", "@"}
Separators == {"-", "_"}

Grouped(base, odd, k, lens, sep) ==
  LET g(i) == Rep(IF i = k THEN odd ELSE base, lens[i])
  IN g(1) \o <<sep>> \o g(2) \o <<sep>> \o g(3) \o <<sep>> \o g(4) \o <<sep>> \o g(5)

Names == {<<>>, <<"E", "n", "g">>, <<"a", "@", "b">>}

ResolverInputs ==
  {Grouped(b, o, k, lens, sep) :
     b \in BaseChars, o \in OddChars, k \in 1..5, lens \in GroupLengths, sep \in Separators}
  \cup Names

\* the id of the directory object a successful lookup finds
FoundId == Grouped("7", "7", 1, <<8, 4, 4, 4, 12>>, "-")

resolverFrame ==
  UNCHANGED <<now, userTokenCache, tokenFile, saveOk, issued, calls, started,
              writeFailures, appTokenCache, appCalls, boot, request>>

\* resolveTeamId (lines 213-223) and resolveUserId (lines 246-256) up to
\* their return or to the first request of the find function they call
Resolve(fn, input) ==
  /\ resolution.pc = "idle"
  /\ LET entered == [NoResolution EXCEPT !.fn = fn, !.input = input] IN
     resolution' =
       IF input = <<>>
       THEN [entered EXCEPT !.pc = "done", !.status = "ok", !.result = NoId]
       ELSE IF guidPattern(input)
       THEN [entered EXCEPT !.pc = "done", !.status = "ok", !.result = input]
       ELSE [entered EXCEPT !.pc = "await", !.lookups = 1]
  /\ resolverFrame

\* the directory answers the request in progress, with or without a match
LookupAnswers(found) ==
  /\ resolution.pc = "await"
  /\ LET queries == Queries(resolution.fn, resolution.input)
         last == resolution.lookups = Len(queries)
     IN resolution' =
          IF found
          THEN [resolution EXCEPT !.pc = "done", !.status = "ok", !.result = FoundId]
          ELSE IF last
          THEN [resolution EXCEPT !.pc = "done", !.status = "ok", !.result = NoId]
          ELSE [resolution EXCEPT !.lookups = @ + 1]
  /\ resolverFrame

\* the request in progress fails: ignored inside the inner try, wrapped and
\* rethrown otherwise
LookupFails ==
  /\ resolution.pc = "await"
  /\ LET query == Queries(resolution.fn, resolution.input)[resolution.lookups]
     IN resolution' =
          IF Optional(query)
          THEN [resolution EXCEPT !.pc = "done", !.status = "ok", !.result = NoId]
          ELSE [resolution EXCEPT !.pc = "done", !.status = "error", !.result = NoId]
  /\ resolverFrame

\* the caller has its answer
Resolved ==
  /\ resolution.pc = "done"
  /\ resolution' = NoResolution
  /\ resolverFrame

NextResolver ==
  \/ \E fn \in {"resolveTeamId", "resolveUserId"}, input \in ResolverInputs :
       Resolve(fn, input)
  \/ \E found \in BOOLEAN : LookupAnswers(found)
  \/ LookupFails
  \/ Resolved

SpecResolver == Init /\ [][NextResolver]_vars

\* --------------------------------------- the resolver against a directory
\* The same resolvers with the directory's answers spelled out: lists of
\* teams, channels, users and meetings, and the errors axios raises.
Guid(ch) == Grouped(ch, ch, 1, <<8, 4, 4, 4, 12>>, "-")

LowerStr(str) == [i \in 1..Len(str) |-> ToLowerCase(str[i])]

\* String.prototype.includes
Includes(str, part) ==
  \E i \in 0..(Len(str) - Len(part)) : SubSeq(str, i + 1, i + Len(part)) = part

\* an Error object: its message (outermost prefix first) and, for an axios
\* error that carries one, the HTTP status and body of error.response
NoError == [message |-> <<>>, status |-> 0, data |-> "none"]
NetworkError == [message |-> <<"Network Error">>, status |-> 0, data |-> "none"]
Forbidden ==
  [message |-> <<"Request failed with status code 403">>, status |-> 403,
   data |-> "Authorization_RequestDenied"]
NotFound ==
  [message |-> <<"Request failed with status code 404">>, status |-> 404,
   data |-> "Request_ResourceNotFound"]
LookupErrors == {NetworkError, Forbidden, NotFound}

\* new Error(`${prefix}: ${error.message}`): a fresh Error without response
Wrapped(prefix, error) ==
  [message |-> <<prefix>> \o error.message, status |-> 0, data |-> "none"]

\* what a resolver hands back: null, an id, or { channelId, teamId }
Null == [isNull |-> TRUE, id |-> NoId, teamId |-> NoId]
IdResult(id) ==
  IF id = NoId THEN Null ELSE [isNull |-> FALSE, id |-> id, teamId |-> NoId]
ChannelResult(channelId, teamId) ==
  [isNull |-> FALSE, id |-> channelId, teamId |-> teamId]

\* directory objects
Fab == <<"F", "a", "b">>
Dec == <<"D", "e", "c">>
TeamPool ==
  {[displayName |-> Fab, id |-> Guid("1")],
   [displayName |-> LowerStr(Fab), id |-> Guid("2")],
   [displayName |-> Dec, id |-> Guid("3")],
   [displayName |-> <<>>, id |-> Guid("4")]}
ChannelPool ==
  {[displayName |-> Fab, id |-> <<"c", "1">>],
   [displayName |-> LowerStr(Dec), id |-> <<"c", "2">>]}
UserPool == {[id |-> Guid("a")], [id |-> Guid("b")]}
MeetingPool ==
  {[id |-> <<"m", "1">>, subject |-> Fab, start |-> 1, organizer |-> Guid("a")],
   [id |-> <<"m", "2">>, subject |-> Dec \o Fab, start |-> 3, organizer |-> Guid("b")],
   [id |-> <<"m", "3">>, subject |-> Dec, start |-> 2, organizer |-> Guid("a")],
   [id |-> <<"m", "4">>, subject |-> <<>>, start |-> 0, organizer |-> NoId]}

\* the value arrays a request can be answered with: up to two distinct
\* objects, in either order
Lists(pool) ==
  {<<>>} \cup {<<x>> : x \in pool}
         \cup ({<<x, y>> : x \in pool, y \in pool} \ {<<x, x>> : x \in pool})

Answers(url) ==
  CASE url \in {"/me/joinedTeams", "/teams"} -> Lists(TeamPool)
    [] url = "/teams/{id}/channels" -> Lists(ChannelPool)
    [] url \in {"/users?mail", "/users?displayName"} -> Lists(UserPool)
    [] url = "/users/{id}" -> {<<x>> : x \in UserPool}
    [] url = "/me/onlineMeetings" -> Lists(MeetingPool)
    [] OTHER -> {}

\* what the resolvers are asked
TeamArgs == {<<>>, Fab, LowerStr(Dec), <<"F", "A", "B">>, Guid("3")}
ChannelArgs == {<<>>, LowerStr(Fab), Guid("c")}
UserArgs == {<<>>, <<"b", "@", "c">>, Dec, Guid("a")}
TitleArgs == {<<>>, <<"f", "A">>}
OrganizerArgs == {<<>>, Dec}
AfterArgs == {0, 2}

NoArgs ==
  [team |-> <<>>, channel |-> <<>>, user |-> <<>>, title |-> <<>>,
   organizerEmail |-> <<>>, afterDate |-> 0]

Operations ==
  {[op |-> "resolveTeamId", args |-> [NoArgs EXCEPT !.team = t]] : t \in TeamArgs}
  \cup {[op |-> "resolveUserId", args |-> [NoArgs EXCEPT !.user = u]] : u \in UserArgs}
  \cup {[op |-> "resolveChannelId", args |-> [NoArgs EXCEPT !.channel = c, !.team = t]] :
          c \in ChannelArgs, t \in TeamArgs}
  \cup {[op |-> "findMeetingId",
         args |-> [NoArgs EXCEPT !.title = t, !.organizerEmail = o, !.afterDate = a]] :
          t \in TitleArgs, o \in OrganizerArgs, a \in AfterArgs}

\* one resolver operation in progress: its arguments, the request it awaits
\* (pc), its local variables, and for the record the requests sent (asked),
\* the answers got and the lookup failure met (cause, at request causeAt)
NewLookup(operation) ==
  [op |-> operation.op, args |-> operation.args, pc |-> "idle", path |-> "none",
   teamId |-> NoId, meetings |-> <<>>, filtered |-> <<>>,
   organizerSought |-> FALSE, organizerId |-> NoId,
   asked |-> <<>>, joined |-> <<>>, all |-> <<>>,
   cause |-> NoError, causeAt |-> "none",
   status |-> "none", result |-> Null, error |-> NoError]

Ask(lookup, url) ==
  [lookup EXCEPT !.pc = url, !.asked = Append(@, url)]

Return(lookup, result) ==
  [lookup EXCEPT !.pc = "done", !.status = "ok", !.result = result]

Throw(lookup, error) ==
  [lookup EXCEPT !.pc = "done", !.status = "error", !.error = error]

FirstTeamExact(list, name) ==
  LET hits == {i \in 1..Len(list) : list[i].displayName = name}
  IN IF hits = {} THEN NoId
     ELSE list[CHOOSE i \in hits : \A j \in hits : i <= j].id

\* list.find(t => t.displayName?.toLowerCase() === name.toLowerCase())?.id
FirstByName(list, name) ==
  LET hits == {i \in 1..Len(list) : LowerStr(list[i].displayName) = LowerStr(name)}
  IN IF hits = {} THEN NoId
     ELSE list[CHOOSE i \in hits : \A j \in hits : i <= j].id

\* the filters of findMeetingId, lines 135-154
ByTitle(list, title) ==
  IF title = <<>> THEN list
  ELSE SelectSeq(list, LAMBDA m : Includes(LowerStr(m.subject), LowerStr(title)))

ByOrganizer(list, organizerId) ==
  IF organizerId = NoId THEN list
  ELSE SelectSeq(list, LAMBDA m : m.organizer = organizerId)

ByStart(list, afterDate) ==
  IF afterDate = 0 THEN list
  ELSE SelectSeq(list, LAMBDA m : m.start # 0 /\ m.start >= afterDate)

RECURSIVE InsertDesc(_, _)
InsertDesc(m, sorted) ==
  IF sorted = <<>> THEN <<m>>
  ELSE IF Head(sorted).start >= m.start
       THEN <<Head(sorted)>> \o InsertDesc(m, Tail(sorted))
       ELSE <<m>> \o sorted

RECURSIVE SortAsc(_)
SortAsc(list) ==
  IF list = <<>> THEN <<>>
  ELSE LET rest == SortAsc(Tail(list))
       IN IF rest # <<>> /\ Head(rest).start < Head(list).start
          THEN <<Head(rest)>> \o SortAsc(<<Head(list)>> \o Tail(rest))
          ELSE <<Head(list)>> \o rest

\* filtered.sort((a, b) => bTime - aTime): stable, latest start first, a
\* missing startDateTime counting as time 0
RECURSIVE SortDesc(_)
SortDesc(list) ==
  IF list = <<>> THEN <<>>
  ELSE InsertDesc(list[Len(list)], SortDesc(SubSeq(list, 1, Len(list) - 1)))

\* findMeetingId from the organizer filter on: lines 141-163
FinishMeetings(lookup, organizerId) ==
  LET byOrganizer == IF lookup.args.organizerEmail = <<>> THEN lookup.filtered
                     ELSE ByOrganizer(lookup.filtered, organizerId)
      sorted == SortDesc(ByStart(byOrganizer, lookup.args.afterDate))
  IN Return([lookup EXCEPT !.organizerId = organizerId, !.filtered = sorted],
            IF sorted = <<>> THEN Null ELSE IdResult(sorted[1].id))

\* findTeamIdByName has returned teamId (or null) to its caller
TeamResolved(lookup, teamId) ==
  IF lookup.op = "resolveTeamId" THEN Return(lookup, IdResult(teamId))
  ELSE IF lookup.path = "channelIsId"
  THEN \* resolveChannelId line 236
       Return([lookup EXCEPT !.teamId = teamId],
              ChannelResult(lookup.args.channel, teamId))
  ELSE IF teamId = NoId
  THEN \* findChannelIdByName line 61
       Throw(lookup, [message |-> <<"Team not found">>, status |-> 0, data |-> "none"])
  ELSE Ask([lookup EXCEPT !.teamId = teamId], "/teams/{id}/channels")

\* findUserId has returned userId (or null) to its caller
UserResolved(lookup, userId) ==
  IF lookup.op = "resolveUserId" THEN Return(lookup, IdResult(userId))
  ELSE FinishMeetings([lookup EXCEPT !.organizerSought = TRUE], userId)

\* the first request of findUserId, lines 91-97
AskUser(lookup, emailOrName) ==
  IF \E i \in 1..Len(emailOrName) : emailOrName[i] = "@"
  THEN Ask(lookup, "/users?mail")
  ELSE Ask(lookup, "/users?displayName")

\* a resolver from its entry to its first request or its return
DirStart(operation) ==
  /\ resolution.pc = "idle"
  /\ LET lookup == NewLookup(operation)
         args == operation.args
     IN resolution' =
          CASE operation.op = "resolveTeamId" ->
                 IF args.team = <<>> THEN Return(lookup, Null)
                 ELSE IF guidPattern(args.team) THEN Return(lookup, IdResult(args.team))
                 ELSE Ask(lookup, "/me/joinedTeams")
            [] operation.op = "resolveUserId" ->
                 IF args.user = <<>> THEN Return(lookup, Null)
                 ELSE IF guidPattern(args.user) THEN Return(lookup, IdResult(args.user))
                 ELSE AskUser(lookup, args.user)
            [] operation.op = "resolveChannelId" ->
                 IF args.channel = <<>> \/ args.team = <<>> THEN Return(lookup, Null)
                 ELSE IF guidPattern(args.channel)
                 THEN IF guidPattern(args.team)
                      THEN Return([lookup EXCEPT !.path = "channelIsId", !.teamId = args.team],
                                  ChannelResult(args.channel, args.team))
                      ELSE Ask([lookup EXCEPT !.path = "channelIsId"], "/me/joinedTeams")
                 ELSE IF guidPattern(args.team)
                 THEN Ask([lookup EXCEPT !.path = "channelIsName", !.teamId = args.team],
                          "/teams/{id}/channels")
                 ELSE Ask([lookup EXCEPT !.path = "channelIsName"], "/me/joinedTeams")
            [] OTHER -> Ask(lookup, "/me/onlineMeetings")
  /\ resolverFrame

\* the directory answers the awaited request with the array value
DirAnswers(value) ==
  /\ resolution.pc \notin {"idle", "done"}
  /\ value \in Answers(resolution.pc)
  /\ LET lookup == resolution
         pc == resolution.pc
     IN resolution' =
          CASE pc = "/me/joinedTeams" ->
                 LET got == [lookup EXCEPT !.joined = value]
                     teamId == FirstByName(value, lookup.args.team)
                 IN IF teamId # NoId THEN TeamResolved(got, teamId)
                    ELSE Ask(got, "/teams")
            [] pc = "/teams" ->
                 TeamResolved([lookup EXCEPT !.all = value],
                              FirstByName(value, lookup.args.team))
            [] pc = "/teams/{id}/channels" ->
                 LET channelId == FirstByName(value, lookup.args.channel)
                 IN IF channelId # NoId
                    THEN Return(lookup, ChannelResult(channelId, lookup.teamId))
                    ELSE Return(lookup, Null)
            [] pc = "/users?mail" ->
                 IF value # <<>> THEN UserResolved(lookup, value[1].id)
                 ELSE Ask(lookup, "/users?displayName")
            [] pc = "/users?displayName" ->
                 IF value # <<>> THEN UserResolved(lookup, value[1].id)
                 ELSE Ask(lookup, "/users/{id}")
            [] pc = "/users/{id}" -> UserResolved(lookup, value[1].id)
            [] OTHER ->
                 LET got == [lookup EXCEPT !.meetings = value,
                                           !.filtered = ByTitle(value, lookup.args.title)]
                 IN IF value = <<>> THEN Return(got, Null)
                    ELSE IF lookup.args.organizerEmail # <<>>
                    THEN AskUser(got, lookup.args.organizerEmail)
                    ELSE FinishMeetings(got, NoId)
  /\ resolverFrame

\* the awaited request fails with error
DirFails(error) ==
  /\ resolution.pc \notin {"idle", "done"}
  /\ LET pc == resolution.pc
         lookup == [resolution EXCEPT !.cause = error, !.causeAt = pc]
         inMeeting(e) == IF lookup.op = "findMeetingId"
                         THEN Wrapped("Failed to find meeting", e) ELSE e
     IN resolution' =
          CASE pc = "/me/joinedTeams" -> Throw(lookup, Wrapped("Failed to find team", error))
            [] pc = "/teams" -> TeamResolved(lookup, NoId)
            [] pc = "/teams/{id}/channels" ->
                 Throw(lookup, Wrapped("Failed to find channel", error))
            [] pc \in {"/users?mail", "/users?displayName"} ->
                 Throw(lookup, inMeeting(Wrapped("Failed to find user", error)))
            [] pc = "/users/{id}" -> UserResolved(lookup, NoId)
            [] OTHER -> Throw(lookup, Wrapped("Failed to find meeting", error))
  /\ resolverFrame

\* GET /api/discovery/teams/:teamId, lines 239-249: the status of the
\* response when the resolver returned null or threw (0: goes on to getTeam)
RouteStatus(lookup) ==
  IF lookup.status = "error"
  THEN IF lookup.error.status # 0 THEN lookup.error.status ELSE 500
  ELSE IF lookup.result.isNull THEN 404 ELSE 0

\* the caller has its answer
DirReturn ==
  /\ resolution.pc = "done"
  /\ resolution' = NoResolution
  /\ resolverFrame

NextDirectory ==
  \/ \E operation \in Operations : DirStart(operation)
  \/ \E value \in Answers(resolution.pc) : DirAnswers(value)
  \/ \E error \in LookupErrors : DirFails(error)
  \/ DirReturn

SpecDirectory == Init /\ [][NextDirectory]_vars

\* ------------------------------------------------ request token middleware
\* resolveGraphToken serving one request at a time.  A path is the sequence
\* of the pieces it is made of, so that startsWith is a prefix test.
delegatedOnlyRoutes ==
  {<<"/api", "/discovery">>, <<"/api", "/messaging">>, <<"/api", "/meetings">>}

appOnlyRoutes == {<<"/api", "/teams-provisioning">>, <<"/api", "/admin">>}

StartsWith(path, route) ==
  Len(route) <= Len(path) /\ SubSeq(path, 1, Len(route)) = route

requiresDelegatedNever(path) == FALSE

requiresDelegated(path) == \E route \in delegatedOnlyRoutes : StartsWith(path, route)

requiresAppOnly(path) == \E route \in appOnlyRoutes : StartsWith(path, route)

Paths ==
  {<<"/api", "/discovery", "/teams">>, <<"/api", "/messaging">>,
   <<"/api", "/meetings", "/m1">>, <<"/api", "/teams-provisioning">>,
   <<"/api", "/admin", "istrators">>, <<"/api", "/teams">>, <<"/health">>}

\* the messages of the errors the two credential sources throw
RefreshFailed == "Failed to refresh access token"
ExchangeFailed == "Request failed with status code 401"

\* the catch of resolveGraphToken, lines 106-123
CatchStatus(message) == IF message = RefreshFailed THEN 401 ELSE 500

\* a request as resolveGraphToken sees it: pc is "obtain" while
\* getDelegatedToken is to be called or awaited, "service" likewise for
\* getAppToken, "responded" once next() was called or a response was sent
NewRequest(path, accessToken, refreshToken) ==
  [pc |-> IF requiresDelegated(path) THEN "obtain"
          ELSE IF requiresAppOnly(path) THEN "service" ELSE "obtain",
   path |-> path, accessToken |-> accessToken, refreshToken |-> refreshToken,
   attached |-> "none", delegatedToken |-> NoToken, appToken |-> NoAppToken,
   status |-> 0, next |-> FALSE, obtains |-> 0, exchanges |-> 0]

CallNext(req) == [req EXCEPT !.pc = "responded", !.next = TRUE]

Respond(req, status) == [req EXCEPT !.pc = "responded", !.status = status]

\* a request arrives: lines 57-70
MwReceive(path, accessToken, refreshToken) ==
  /\ request.pc = "idle"
  /\ started < MaxCalls
  /\ request' = NewRequest(path, accessToken, refreshToken)
  /\ calls' = Settled
  /\ appCalls' = AppSettled
  /\ UNCHANGED <<now, userTokenCache, tokenFile, saveOk, issued, started,
                 writeFailures, appTokenCache, boot, resolution>>

\* await getDelegatedToken(req), lines 73 and 94, settles
MwAfterObtain ==
  /\ request.pc = "obtain"
  /\ calls[1].pc = "done"
  /\ LET call == calls[1]
         req == [request EXCEPT !.obtains = @ + 1]
     IN request' =
          IF call.status = "error" THEN Respond(req, CatchStatus(RefreshFailed))
          ELSE IF call.status = "ok"
          THEN CallNext([req EXCEPT !.attached = "delegated",
                                    !.delegatedToken = call.result])
          ELSE IF requiresDelegated(request.path) THEN Respond(req, 401)
          ELSE [req EXCEPT !.pc = "service"]
  /\ calls' = Settled
  /\ appCalls' = AppSettled
  /\ UNCHANGED <<now, userTokenCache, tokenFile, saveOk, issued, started,
                 writeFailures, appTokenCache, boot, resolution>>

\* await getAppToken(), lines 89 and 100, settles
MwAfterService ==
  /\ request.pc = "service"
  /\ appCalls[1].pc = "done"
  /\ LET call == appCalls[1]
         req == [request EXCEPT !.exchanges = @ + 1]
     IN request' =
          IF call.status = "error" THEN Respond(req, CatchStatus(ExchangeFailed))
          ELSE CallNext([req EXCEPT !.attached = "service",
                                    !.appToken = call.result])
  /\ calls' = Settled
  /\ appCalls' = AppSettled
  /\ UNCHANGED <<now, userTokenCache, tokenFile, saveOk, issued, started,
                 writeFailures, appTokenCache, boot, resolution>>

\* the request is over
MwDone ==
  /\ request.pc = "responded"
  /\ request' = NoRequest
  /\ calls' = Settled
  /\ appCalls' = AppSettled
  /\ UNCHANGED <<now, userTokenCache, tokenFile, saveOk, issued, started,
                 writeFailures, appTokenCache, boot, resolution>>

\* no outcome of a credential source is waiting to be taken up
NothingSettled == calls[1].pc # "done" /\ appCalls[1].pc # "done"

NextMiddleware ==
  \/ \E path \in Paths, a \in AccessPool, r \in RefreshPool : MwReceive(path, a, r)
  \/ \E w \in BOOLEAN :
       /\ request.pc = "obtain" /\ calls[1].pc = "idle"
       /\ Start(1, request.accessToken, request.refreshToken, w)
  \/ \E l \in Lifetimes, rot \in BOOLEAN, w \in BOOLEAN :
       request.pc = "obtain" /\ RefreshSucceeds(1, l, rot, w)
  \/ \E w \in BOOLEAN : request.pc = "obtain" /\ RefreshFails(1, w)
  \/ MwAfterObtain
  \/ request.pc = "service" /\ appCalls[1].pc = "idle" /\ getAppTokenStart(1)
  \/ \E l \in Lifetimes : request.pc = "service" /\ AppExchangeSucceeds(1, l)
  \/ request.pc = "service" /\ AppExchangeFails(1)
  \/ MwAfterService
  \/ MwDone
  \/ \E d \in TickSteps :
       /\ NothingSettled
       /\ request.pc = "obtain" => InFlight(1)
       /\ request.pc = "service" => AppInFlight(1)
       /\ Tick(d)

SpecMiddleware == Init /\ [][NextMiddleware]_vars

\* ------------------------------------------------- server.js, alert webhook
\* The token extraction middleware of server.js and the inbound alert
\* webhook behind it, serving one request at a time.
AlertPath == <<"/api/", "webhooks/inbound/alert">>

ServerPaths ==
  {<<"/">>, <<"/auth/", "login">>, AlertPath, <<"/api/", "discovery/teams">>,
   <<"/health">>}

\* process.env as the handlers read it
Environments ==
  [GRAPH_ACCESS_TOKEN : BOOLEAN, TEAMS_INCOMING_WEBHOOK_URL : BOOLEAN,
   INBOUND_WEBHOOK_SECRET : {"", "s1"}]

\* what of a request the middleware and the handler look at: the scheme of
\* the Authorization header, whether the body has accessToken and summary,
\* and the X-Shared-Secret header ("" when absent)
ServerRequests ==
  [method : {"GET", "POST"}, path : ServerPaths,
   authorization : {"none", "Bearer", "Basic"}, bodyAccessToken : BOOLEAN,
   sharedSecret : {"", "s1", "s2"}, summary : BOOLEAN, env : Environments]

Accepted(req, env) ==
  [pc |-> "middleware", method |-> req.method, path |-> req.path,
   authorization |-> req.authorization, bodyAccessToken |-> req.bodyAccessToken,
   sharedSecret |-> req.sharedSecret, summary |-> req.summary, env |-> env,
   graphToken |-> "none", answeredBy |-> "none", status |-> 0,
   forwarding |-> FALSE]

Answer(req, by, status) ==
  [req EXCEPT !.pc = "responded", !.answeredBy = by, !.status = status]

serverFrame ==
  /\ calls' = Settled
  /\ appCalls' = AppSettled
  /\ UNCHANGED <<now, userTokenCache, tokenFile, saveOk, issued, started,
                 writeFailures, appTokenCache, boot, resolution>>

\* a request arrives
SrvReceive(req) ==
  /\ request.pc = "idle"
  /\ request' = Accepted(req, req.env)
  /\ serverFrame

\* server.js lines 10-50
SrvExtractToken ==
  /\ request.pc = "middleware"
  /\ LET req == request
         onwards == [req EXCEPT !.pc = "route"]
     IN request' =
          IF StartsWith(req.path, <<"/auth/">>) \/ req.path = <<"/">>
          THEN onwards
          ELSE IF req.authorization = "Bearer"
          THEN [onwards EXCEPT !.graphToken = "header"]
          ELSE IF req.method \in {"POST", "PUT", "PATCH"} /\ req.bodyAccessToken
          THEN [onwards EXCEPT !.graphToken = "body"]
          ELSE IF req.env.GRAPH_ACCESS_TOKEN
          THEN [onwards EXCEPT !.graphToken = "env"]
          ELSE IF StartsWith(req.path, <<"/api/">>)
          THEN Answer(req, "middleware", 401)
          ELSE onwards
  /\ serverFrame

\* POST /api/webhooks/inbound/alert up to its await: lines 493-551
SrvAlert ==
  /\ request.pc = "route"
  /\ request.method = "POST" /\ request.path = AlertPath
  /\ LET req == request
         expectedSecret == req.env.INBOUND_WEBHOOK_SECRET
     IN request' =
          IF ~req.env.TEAMS_INCOMING_WEBHOOK_URL THEN Answer(req, "alert", 500)
          ELSE IF expectedSecret # "" /\ req.sharedSecret # expectedSecret
          THEN Answer(req, "alert", 401)
          ELSE IF ~req.summary THEN Answer(req, "alert", 400)
          ELSE [req EXCEPT !.pc = "forward", !.forwarding = TRUE]
  /\ serverFrame

\* the Teams incoming webhook takes the card: lines 551-553
SrvForwarded ==
  /\ request.pc = "forward"
  /\ request' = Answer(request, "alert", 200)
  /\ serverFrame

\* axios.post rejects, with the status of the webhook's answer or without
\* one (0): lines 554-558
SrvForwardFails(status) ==
  /\ request.pc = "forward"
  /\ request' = Answer(request, "alert", IF status # 0 THEN status ELSE 500)
  /\ serverFrame

\* any other route takes the request
SrvOther ==
  /\ request.pc = "route"
  /\ ~(request.method = "POST" /\ request.path = AlertPath)
  /\ request' = [request EXCEPT !.pc = "responded", !.answeredBy = "other"]
  /\ serverFrame

SrvDone ==
  /\ request.pc = "responded"
  /\ request' = NoRequest
  /\ serverFrame

NextServer ==
  \/ \E req \in ServerRequests : SrvReceive(req)
  \/ SrvExtractToken
  \/ SrvAlert
  \/ SrvForwarded
  \/ \E status \in {0, 400, 404} : SrvForwardFails(status)
  \/ SrvOther
  \/ SrvDone

SpecServer == Init /\ [][NextServer]_vars

\* ------------------------------------------------------------ properties
\* What a credential says about itself, read off its claims.
Subject(token) == IF token.kind = "jwt" THEN token.sub ELSE SentinelId
PastExpiry(token, t) == token.kind = "jwt" /\ token.exp <= t
Supplied(call) == <<call.accessToken, call.refreshToken>>
JustDone(c) == calls[c].pc = "done"

\* call d was made right after an earlier call returned, nothing happened in
\* between or while d was in progress, both carried the same request
\* credentials and neither met a refresh failure
Succession(d) ==
  /\ JustDone(d)
  /\ calls[d].prev.any
  /\ Supplied(calls[d].prev) = Supplied(calls[d])
  /\ calls[d].prev.status # "error"
  /\ calls[d].status # "error"

\* C1 (as stated): two obtain calls with the same request credentials in
\* immediate succession, with no time elapsed and no refresh failure, return
\* the same access credential.
C1_SameCredentialTwice ==
  \A d \in Slots :
    Succession(d) => calls[d].result = calls[d].prev.result

\* C1 (amended): two obtain calls with the same request credentials in
\* immediate succession, with no time elapsed and no refresh failure, return
\* the same access credential, provided the request does not pair an expired
\* access credential with a refresh credential and any refresh made by the
\* first call was granted a lifetime longer than the 60-second margin.
C1_SameCredentialTwiceUnlessForcedRefresh ==
  \A d \in Slots :
    ( /\ Succession(d)
      /\ ~(PastExpiry(calls[d].accessToken, now) /\ calls[d].refreshToken.kind # "absent")
      /\ (calls[d].prev.exchanges > 0 => calls[d].prev.expires_in > Margin) )
    => /\ calls[d].result = calls[d].prev.result
       /\ calls[d].status = calls[d].prev.status

\* the first call refreshed a stale record and the second one was served
\* the credential the first one stored
C1_Witness ==
  \E d \in Slots :
    /\ Succession(d)
    /\ calls[d].prev.exchanges = 1
    /\ calls[d].prev.expires_in > Margin
    /\ calls[d].via = "cached"
    /\ calls[d].result = calls[d].prev.result

\* C2: obtain never returns a stored access credential whose embedded expiry
\* is in the past or less than the 60-second margin away, unless that same
\* call first attempted a refresh exchange.
C2_NoStaleCredentialWithoutRefresh ==
  \A c \in Slots :
    ( /\ JustDone(c)
      /\ calls[c].status = "ok"
      /\ calls[c].exchanges = 0
      /\ calls[c].result.kind = "jwt"
      /\ calls[c].userId \in DOMAIN userTokenCache
      /\ userTokenCache[calls[c].userId].accessToken = calls[c].result )
    => calls[c].result.exp - now >= Margin

\* C3: every record of the store has expiresAt equal to the embedded expiry
\* of its accessToken minus the 60-second margin.
C3_ExpiresAtIsTrueExpiryMinusMargin ==
  \A id \in DOMAIN userTokenCache :
    userTokenCache[id].accessToken.kind = "jwt"
      => userTokenCache[id].expiresAt = userTokenCache[id].accessToken.exp - Margin

\* C4: whenever an obtain call fails with RefreshFailed, the store holds no
\* record for that identity afterwards, in memory and (unless the latest
\* write of the file itself failed) in the durable copy.
C4_RefreshFailedEvicts ==
  \A c \in Slots :
    (JustDone(c) /\ calls[c].status = "error")
    => /\ calls[c].userId \notin DOMAIN userTokenCache
       /\ saveOk => calls[c].userId \notin DOMAIN loadTokenCache(tokenFile)

\* C5: when two concurrent obtain calls for one identity both find the stored
\* record stale, each call whose refresh exchange succeeds returns the
\* credential its own exchange produced, whatever the other call did, and
\* on its return the stored record is exactly the one it wrote; hence when
\* both succeed the final record is that of the call that completed last.
C5_RacingRefreshesBothSucceed ==
  \A c \in Slots :
    ( /\ calls[c].raced
      /\ JustDone(c)
      /\ calls[c].response # NoResponse )
    => /\ calls[c].status = "ok"
       /\ calls[c].result = calls[c].response.access_token
       /\ calls[c].userId \in DOMAIN userTokenCache
       /\ userTokenCache[calls[c].userId] =
            [accessToken |-> calls[c].response.access_token,
             refreshToken |-> IF calls[c].response.refresh_token.kind = "absent"
                              THEN calls[c].tokenToUse
                              ELSE calls[c].response.refresh_token,
             expiresAt |-> now + calls[c].response.expires_in - Margin]

\* the second of two racing refreshes has just completed, after the first
\* one succeeded, and it rotated the refresh credential
C5_Witness ==
  \E c \in Slots :
    /\ calls[c].raced
    /\ JustDone(c)
    /\ calls[c].status = "ok"
    /\ calls[c].rival = "ok"
    /\ calls[c].response.refresh_token.kind = "rt"
    /\ userTokenCache[calls[c].userId].accessToken = calls[c].result

\* a step in which call c resumes from its refresh exchange with fresh
\* credentials and overwrites the record its identity already had
ReplacesRecord(c) ==
  /\ InFlight(c)
  /\ calls'[c].pc = "done"
  /\ calls'[c].status = "ok"
  /\ calls[c].userId \in DOMAIN userTokenCache

\* C6 (as stated): after every successful refresh that replaces an existing
\* record, the new record's expiresAt is strictly greater than the replaced
\* record's expiresAt.
C6_RefreshRaisesExpiresAt ==
  [][\A c \in Slots :
       ReplacesRecord(c)
       => userTokenCache'[calls[c].userId].expiresAt
            > userTokenCache[calls[c].userId].expiresAt]_vars

\* C6 (amended): after every successful refresh that was granted a lifetime
\* longer than the 60-second margin and replaces a record that is stale at
\* the moment of the write (now >= its expiresAt), the new record's
\* expiresAt is strictly greater than the replaced record's expiresAt.
C6_RefreshOfStaleRecordRaisesExpiresAt ==
  [][\A c \in Slots :
       ( /\ ReplacesRecord(c)
         /\ now >= userTokenCache[calls[c].userId].expiresAt
         /\ calls'[c].response.expires_in > Margin )
       => userTokenCache'[calls[c].userId].expiresAt
            > userTokenCache[calls[c].userId].expiresAt]_vars

\* a refresh granted a long lifetime has just replaced a record that was
\* stale
C6_Witness ==
  \E c \in Slots :
    /\ JustDone(c)
    /\ calls[c].via = "stale"
    /\ calls[c].status = "ok"
    /\ calls[c].response.expires_in > Margin
    /\ userTokenCache[calls[c].userId] = calls[c].wrote
    /\ calls[c].wrote.expiresAt > now

\* C7: whenever the latest write of the file succeeded, the durable copy
\* holds exactly the identities and records of the in-memory map.
C7_DurableCopyAgrees ==
  saveOk => loadTokenCache(tokenFile) = userTokenCache

\* a refresh has just stored a record and the durable copy has it, after an
\* earlier write had failed
C7_Witness ==
  \E c \in Slots :
    /\ JustDone(c)
    /\ calls[c].via = "stale"
    /\ calls[c].status = "ok"
    /\ saveOk
    /\ writeFailures > 0
    /\ calls[c].userId \in DOMAIN tokenFile
    /\ loadTokenCache(tokenFile)[calls[c].userId] = calls[c].wrote

\* a step in which slot c takes a new request
Enters(c) == ~InFlight(c) /\ calls'[c].pc # "idle" /\ started' = started + 1

\* C8: obtain called with an expired access credential, no refresh
\* credential and no stored record for the identity returns the supplied
\* credential unchanged, issues no refresh exchange and leaves the store
\* (memory and durable) unchanged.
C8_ExpiredPassthrough ==
  [][\A c \in Slots :
       ( /\ Enters(c)
         /\ PastExpiry(calls'[c].accessToken, now)
         /\ calls'[c].refreshToken.kind = "absent"
         /\ Subject(calls'[c].accessToken) \notin DOMAIN userTokenCache )
       => /\ calls'[c].pc = "done"
          /\ calls'[c].status = "ok"
          /\ calls'[c].result = calls'[c].accessToken
          /\ calls'[c].exchanges = 0
          /\ userTokenCache' = userTokenCache
          /\ tokenFile' = tokenFile]_vars

\* an expired credential without refresh credential has just been passed
\* through
C8_Witness ==
  \E c \in Slots :
    /\ JustDone(c)
    /\ calls[c].via = "pass"
    /\ PastExpiry(calls[c].accessToken, now)
    /\ calls[c].result = calls[c].accessToken

\* the supplied access credential was not expired when the call was made
UsableSupplied(call) ==
  /\ call.accessToken.kind # "absent"
  /\ ~PastExpiry(call.accessToken, call.t0)

\* C9 (as stated): whenever the supplied access credential is not expired,
\* obtain returns an access credential and does not fail.
C9_UsableCredentialNeverFails ==
  \A c \in Slots :
    (calls[c].pc = "done" /\ UsableSupplied(calls[c]))
    => calls[c].status = "ok"

\* C9 (amended): whenever the supplied access credential is not expired,
\* obtain fails only when it found a stale stored record for the identity
\* and the refresh exchange it then made failed; in every other case it
\* returns an access credential.
C9_UsableCredentialFailsOnlyOnStaleRefresh ==
  \A c \in Slots :
    (calls[c].pc = "done" /\ UsableSupplied(calls[c]))
    => \/ calls[c].status = "ok" /\ calls[c].result.kind # "absent"
       \/ /\ calls[c].status = "error"
          /\ calls[c].via = "stale"
          /\ calls[c].exchanges = 1

\* a call with a usable credential failed on the refresh of a stale record
C9_Witness ==
  \E c \in Slots :
    /\ calls[c].pc = "done"
    /\ UsableSupplied(calls[c])
    /\ calls[c].status = "error"
    /\ calls[c].via = "stale"

\* C10: obtain called while the store has a record for the identity with
\* now < expiresAt, and not with an expired access credential together with
\* a refresh credential, returns the stored access credential, issues no
\* refresh exchange and does not modify the store.
C10_FreshRecordWins ==
  [][\A c \in Slots :
       LET a == calls'[c].accessToken
           id == Subject(a)
       IN ( /\ Enters(c)
            /\ a.kind # "absent"
            /\ id \in DOMAIN userTokenCache
            /\ now < userTokenCache[id].expiresAt
            /\ ~(PastExpiry(a, now) /\ calls'[c].refreshToken.kind # "absent") )
          => /\ calls'[c].pc = "done"
             /\ calls'[c].status = "ok"
             /\ calls'[c].result = userTokenCache[id].accessToken
             /\ calls'[c].exchanges = 0
             /\ userTokenCache' = userTokenCache
             /\ tokenFile' = tokenFile]_vars

\* a call has just been served a stored credential that differs from the
\* one it supplied
C10_Witness ==
  \E c \in Slots :
    /\ JustDone(c)
    /\ calls[c].via = "cached"
    /\ calls[c].result # calls[c].accessToken
    /\ calls[c].result = userTokenCache[calls[c].userId].accessToken

\* the record a successful refresh exchange of call (after the step) stores
StoredByRefresh(call, t) ==
  [accessToken |-> call.response.access_token,
   refreshToken |-> IF call.response.refresh_token.kind = "absent"
                    THEN call.tokenToUse
                    ELSE call.response.refresh_token,
   expiresAt |-> t + call.response.expires_in - Margin]

\* a step in which call c resumes from its refresh exchange and returns or
\* throws
Completes(c) == InFlight(c) /\ calls'[c].pc = "done"

\* C11: when the supplied access credential is expired and a refresh
\* credential is supplied, obtain performs exactly one refresh exchange with
\* the supplied refresh credential before it reads or writes the store; on
\* success it writes the resulting record under the identity in memory and
\* (when the write of the file succeeds) in the durable copy and returns the
\* fresh access credential; on failure it raises RefreshFailed and returns
\* nothing.
C11_ExpiredWithRefreshRefreshesFirst ==
  [][\A c \in Slots :
       /\ ( /\ Enters(c)
            /\ PastExpiry(calls'[c].accessToken, now)
            /\ calls'[c].refreshToken.kind # "absent" )
          => /\ calls'[c].pc \notin {"idle", "done"}
             /\ calls'[c].exchanges = 1
             /\ calls'[c].tokenToUse = calls'[c].refreshToken
             /\ userTokenCache' = userTokenCache
             /\ tokenFile' = tokenFile
       /\ ( /\ Completes(c)
            /\ PastExpiry(calls[c].accessToken, calls[c].t0)
            /\ calls[c].refreshToken.kind # "absent" )
          => LET id == Subject(calls[c].accessToken)
                 done == calls'[c]
             IN /\ done.exchanges = 1
                /\ IF done.response # NoResponse
                   THEN /\ done.status = "ok"
                        /\ done.result = done.response.access_token
                        /\ done.result # done.accessToken
                        /\ id \in DOMAIN userTokenCache'
                        /\ userTokenCache'[id] = StoredByRefresh(done, now)
                        /\ saveOk' => /\ id \in DOMAIN tokenFile'
                                      /\ loadTokenCache(tokenFile')[id]
                                           = StoredByRefresh(done, now)
                   ELSE /\ done.status = "error"
                        /\ done.result = NoToken]_vars

\* an expired credential came with a refresh credential right after another
\* call had stored an unexpired record for the same identity; it was
\* refreshed all the same, and the new record is in memory and in the file
C11_Witness ==
  \E c \in Slots :
    /\ JustDone(c)
    /\ PastExpiry(calls[c].accessToken, calls[c].t0)
    /\ calls[c].refreshToken.kind # "absent"
    /\ calls[c].status = "ok"
    /\ calls[c].exchanges = 1
    /\ calls[c].prev.any
    /\ calls[c].prev.status = "ok"
    /\ calls[c].prev.exchanges = 1
    /\ calls[c].prev.expires_in > Margin
    /\ Subject(calls[c].prev.accessToken) = Subject(calls[c].accessToken)
    /\ userTokenCache[Subject(calls[c].accessToken)] = calls[c].wrote
    /\ saveOk
    /\ loadTokenCache(tokenFile)[Subject(calls[c].accessToken)] = calls[c].wrote

\* the request does not pair an expired access credential with a refresh
\* credential (that case is refreshed before the store is read)
ReadsStore(a, r, t) ==
  /\ a.kind # "absent"
  /\ ~(PastExpiry(a, t) /\ r.kind # "absent")

\* C12: when the stored record of the identity is stale (now >= expiresAt),
\* obtain refreshes with the refresh credential supplied in the request if
\* there is one and with the stored one otherwise; on success the record is
\* replaced by the refreshed access credential, the refresh credential the
\* exchange returned (or the one used, if none was returned) and a new
\* expiresAt, and the refreshed access credential is returned.
C12_StaleRecordRefreshed ==
  [][\A c \in Slots :
       LET a == calls'[c].accessToken
           r == calls'[c].refreshToken
           id == Subject(a)
       IN /\ ( /\ Enters(c)
               /\ ReadsStore(a, r, now)
               /\ id \in DOMAIN userTokenCache
               /\ now >= userTokenCache[id].expiresAt )
             => /\ calls'[c].pc \notin {"idle", "done"}
                /\ calls'[c].exchanges = 1
                /\ calls'[c].tokenToUse =
                     IF r.kind # "absent" THEN r ELSE userTokenCache[id].refreshToken
                /\ calls'[c].via = "stale"
          /\ ( /\ Completes(c)
               /\ calls[c].via = "stale"
               /\ calls'[c].response # NoResponse )
             => /\ calls'[c].status = "ok"
                /\ calls'[c].result = calls'[c].response.access_token
                /\ Subject(calls[c].accessToken) \in DOMAIN userTokenCache'
                /\ userTokenCache'[Subject(calls[c].accessToken)]
                     = StoredByRefresh(calls'[c], now)]_vars

\* a stale record was refreshed with the refresh credential of the request,
\* which differs from the stored one, and the exchange returned none
C12_Witness ==
  \E c \in Slots :
    /\ JustDone(c)
    /\ calls[c].via = "stale"
    /\ calls[c].status = "ok"
    /\ calls[c].refreshToken.kind # "absent"
    /\ calls[c].tokenToUse = calls[c].refreshToken
    /\ calls[c].prev.any
    /\ calls[c].prev.refreshToken # calls[c].refreshToken
    /\ calls[c].response.refresh_token.kind = "absent"
    /\ userTokenCache[calls[c].userId].refreshToken = calls[c].refreshToken
    /\ calls[c].result = userTokenCache[calls[c].userId].accessToken

\* C13: when the store has no record for the identity, a refresh credential
\* is supplied and the supplied access credential is currently valid, obtain
\* creates a record for the identity holding exactly the supplied access and
\* refresh credentials, persists it (when the write of the file succeeds),
\* returns the supplied access credential unchanged and issues no refresh
\* exchange.
C13_FirstSightCreatesRecord ==
  [][\A c \in Slots :
       LET a == calls'[c].accessToken
           r == calls'[c].refreshToken
           id == Subject(a)
       IN ( /\ Enters(c)
            /\ a.kind # "absent"
            /\ ~PastExpiry(a, now)
            /\ r.kind # "absent"
            /\ id \notin DOMAIN userTokenCache )
          => /\ calls'[c].pc = "done"
             /\ calls'[c].status = "ok"
             /\ calls'[c].result = a
             /\ calls'[c].exchanges = 0
             /\ id \in DOMAIN userTokenCache'
             /\ userTokenCache'[id].accessToken = a
             /\ userTokenCache'[id].refreshToken = r
             /\ saveOk' => /\ id \in DOMAIN tokenFile'
                           /\ loadTokenCache(tokenFile')[id] = userTokenCache'[id]]_vars

\* a record has just been created from the credentials of the request and
\* the file holds it
C13_Witness ==
  \E c \in Slots :
    /\ JustDone(c)
    /\ calls[c].exchanges = 0
    /\ calls[c].wrote # NoRecord
    /\ calls[c].wrote.accessToken = calls[c].accessToken
    /\ calls[c].wrote.refreshToken = calls[c].refreshToken
    /\ calls[c].result = calls[c].accessToken
    /\ userTokenCache[Subject(calls[c].accessToken)] = calls[c].wrote
    /\ saveOk
    /\ loadTokenCache(tokenFile)[Subject(calls[c].accessToken)] = calls[c].wrote

\* a step of call c in which a write of the file was attempted and failed
SaveFailedIn(c) ==
  /\ Enters(c) \/ Completes(c)
  /\ writeFailures' = writeFailures + 1

\* C14: a failure of the durable write never blocks a result: when saving
\* the store to the file fails during an obtain call that creates a record
\* or resumes from a successful refresh exchange, the call still returns the
\* credential it returns when the write succeeds (the supplied one, resp.
\* the one the exchange produced), the in-memory record is updated and no
\* error is raised.
C14_WriteFailureDoesNotBlock ==
  [][\A c \in Slots :
       ( /\ SaveFailedIn(c)
         /\ Completes(c) => calls'[c].response # NoResponse )
       => LET done == calls'[c]
              id == Subject(done.accessToken)
          IN /\ done.pc = "done"
             /\ done.status = "ok"
             /\ done.result = IF Completes(c) THEN done.response.access_token
                              ELSE done.accessToken
             /\ id \in DOMAIN userTokenCache'
             /\ userTokenCache'[id].accessToken = done.result
             /\ userTokenCache'[id] = done.wrote
             /\ tokenFile' = tokenFile]_vars

\* a refreshed credential has just been returned and stored in memory while
\* the write of the file failed
C14_Witness ==
  \E c \in Slots :
    /\ JustDone(c)
    /\ ~saveOk
    /\ calls[c].status = "ok"
    /\ calls[c].exchanges = 1
    /\ calls[c].result = calls[c].response.access_token
    /\ userTokenCache[calls[c].userId] = calls[c].wrote
    /\ loadTokenCache(tokenFile) # userTokenCache

\* C15: an access credential that cannot be decoded does not make obtain
\* fail: its identity is the sentinel identity, it counts as not expired,
\* and obtain goes through the store lookup, record creation and
\* passthrough steps under the sentinel key; such a call fails only when
\* the refresh exchange of a stale sentinel record is rejected.
C15_UndecodableIsSentinelAndValid ==
  [][\A c \in Slots :
       LET a == calls'[c].accessToken
           r == calls'[c].refreshToken
           has == SentinelId \in DOMAIN userTokenCache
       IN /\ (Enters(c) /\ a.kind = "opaque")
             => /\ calls'[c].userId = SentinelId
                /\ ~calls'[c].providedTokenExpired
                /\ calls'[c].status # "error"
                /\ (has /\ now < userTokenCache[SentinelId].expiresAt)
                   => /\ calls'[c].status = "ok"
                      /\ calls'[c].result = userTokenCache[SentinelId].accessToken
                      /\ userTokenCache' = userTokenCache
                /\ (has /\ now >= userTokenCache[SentinelId].expiresAt)
                   => /\ calls'[c].pc \notin {"idle", "done"}
                      /\ calls'[c].via = "stale"
                      /\ userTokenCache' = userTokenCache
                /\ (~has /\ r.kind # "absent")
                   => /\ calls'[c].status = "ok"
                      /\ calls'[c].result = a
                      /\ DOMAIN userTokenCache' = DOMAIN userTokenCache \cup {SentinelId}
                      /\ userTokenCache'[SentinelId].accessToken = a
                      /\ userTokenCache'[SentinelId].refreshToken = r
                /\ (~has /\ r.kind = "absent")
                   => /\ calls'[c].status = "ok"
                      /\ calls'[c].result = a
                      /\ userTokenCache' = userTokenCache
          /\ ( /\ Completes(c)
               /\ calls[c].accessToken.kind = "opaque"
               /\ calls'[c].status = "error" )
             => /\ calls[c].via = "stale"
                /\ calls'[c].response = NoResponse]_vars

\* an undecodable credential has just been served the record stored under
\* the sentinel identity by an earlier call
C15_Witness ==
  \E c \in Slots :
    /\ JustDone(c)
    /\ calls[c].accessToken.kind = "opaque"
    /\ calls[c].userId = SentinelId
    /\ calls[c].status = "ok"
    /\ calls[c].exchanges = 0
    /\ calls[c].refreshToken.kind = "absent"
    /\ calls[c].prev.any
    /\ calls[c].prev.refreshToken.kind # "absent"
    /\ SentinelId \in DOMAIN userTokenCache
    /\ calls[c].result = userTokenCache[SentinelId].accessToken

\* the record of identity id is the same before and after the step
RecordUntouched(id) ==
  /\ (id \in DOMAIN userTokenCache') = (id \in DOMAIN userTokenCache)
  /\ id \in DOMAIN userTokenCache => userTokenCache'[id] = userTokenCache[id]

\* C17: an obtain call for identity X, under any interleaving with other
\* calls and whether it succeeds or fails, never creates, changes or removes
\* the in-memory record of any identity Y different from X.
C17_OtherIdentitiesUntouched ==
  [][\A c \in Slots :
       (Enters(c) \/ Completes(c))
       => \A id \in Ids \ {Subject(calls'[c].accessToken)} : RecordUntouched(id)]_vars

\* a call has just failed and lost its record while the record of another
\* identity is still in the store
C17_Witness ==
  \E c \in Slots :
    /\ JustDone(c)
    /\ calls[c].status = "error"
    /\ calls[c].userId \notin DOMAIN userTokenCache
    /\ \E id \in DOMAIN userTokenCache : id # calls[c].userId

\* C16: the core never retries: every obtain call issues at most one refresh
\* exchange and every getAppToken call at most one client-credentials
\* exchange; when that exchange fails the call ends with the failure raised
\* to its caller, without a second attempt.
C16_NoRetry ==
  /\ \A c \in Slots :
       /\ calls[c].exchanges <= 1
       /\ InFlight(c) => calls[c].exchanges = 1
       /\ (JustDone(c) /\ calls[c].exchanges = 1 /\ calls[c].response = NoResponse)
          => calls[c].status = "error"
  /\ \A c \in Slots :
       /\ appCalls[c].exchanges <= 1
       /\ AppInFlight(c) => appCalls[c].exchanges = 1
       /\ ( /\ appCalls[c].pc = "done"
            /\ appCalls[c].exchanges = 1
            /\ appCalls[c].granted = NoAppToken )
          => appCalls[c].status = "error"

\* a getAppToken call has just failed on its only exchange while an obtain
\* call awaits its only refresh exchange
C16_Witness ==
  \E c \in Slots, d \in Slots :
    /\ appCalls[c].pc = "done"
    /\ appCalls[c].status = "error"
    /\ appCalls[c].exchanges = 1
    /\ InFlight(d)
    /\ calls[d].exchanges = 1

\* steps in which slot c takes a getAppToken call, and in which that call
\* resumes from its exchange
AppEnters(c) ==
  ~AppInFlight(c) /\ appCalls'[c].pc # "idle" /\ started' = started + 1
AppCompletes(c) == AppInFlight(c) /\ appCalls'[c].pc = "done"

\* C18: the service credential cache is a single slot: getAppToken returns
\* the held token without any exchange exactly when a token is held and now
\* is before its expiresAt; otherwise it performs one client-credentials
\* exchange, stores the new token with expiresAt = now + lifetime - 60 s in
\* the slot and returns that token; when the exchange fails the error is
\* raised and the slot is left unchanged.
C18_SingleSlotCache ==
  [][\A c \in Slots :
       /\ AppEnters(c)
          => /\ appTokenCache' = appTokenCache
             /\ IF appTokenCache.token # NoAppToken /\ now < appTokenCache.expiresAt
                THEN /\ appCalls'[c].pc = "done"
                     /\ appCalls'[c].status = "ok"
                     /\ appCalls'[c].result = appTokenCache.token
                     /\ appCalls'[c].exchanges = 0
                ELSE /\ appCalls'[c].pc = "await"
                     /\ appCalls'[c].exchanges = 1
       /\ AppCompletes(c)
          => LET done == appCalls'[c] IN
             /\ done.exchanges = 1
             /\ IF done.granted # NoAppToken
                THEN /\ done.status = "ok"
                     /\ done.result = done.granted
                     /\ appTokenCache' =
                          [token |-> done.granted,
                           expiresAt |-> now + done.expires_in - 60]
                ELSE /\ done.status = "error"
                     /\ appTokenCache' = appTokenCache]_vars

\* a call has just been served the held token, some time after the call
\* that acquired it
C18_Witness ==
  \E c \in Slots :
    /\ appCalls[c].pc = "done"
    /\ appCalls[c].status = "ok"
    /\ appCalls[c].exchanges = 0
    /\ appCalls[c].result = appTokenCache.token
    /\ appCalls[c].result # NoAppToken
    /\ now > 0
    /\ now < appTokenCache.expiresAt

\* a step in which the process restarts
Restarts == boot'.n = boot.n + 1

HexDigit(ch) ==
  ch \in {"0", "1", "2", "3", "4", "5", "6", "7", "8", "9",
          "a", "b", "c", "d", "e", "f", "A", "B", "C", "D", "E", "F"}
CanonicalShape(s) ==
  /\ Len(s) = 8 + 1 + 4 + 1 + 4 + 1 + 4 + 1 + 12
  /\ \A i \in 1..Len(s) :
       IF i \in {8 + 1, 8 + 1 + 4 + 1, 8 + 1 + 4 + 1 + 4 + 1, 8 + 1 + 4 + 1 + 4 + 1 + 4 + 1}
       THEN s[i] = "-"
       ELSE HexDigit(s[i])

\* C20: for every string of the canonical-ID shape, resolveTeamId and
\* resolveUserId return the string unchanged and send no request to the
\* directory.
C20_CanonicalIdPassesThrough ==
  (resolution.pc # "idle" /\ CanonicalShape(resolution.input))
  => /\ resolution.pc = "done"
     /\ resolution.status = "ok"
     /\ resolution.result = resolution.input
     /\ resolution.lookups = 0

\* resolveUserId has just returned, unchanged and without any request, a
\* canonical id that mixes upper-case and lower-case digits
C20_Witness ==
  /\ resolution.pc = "done"
  /\ resolution.fn = "resolveUserId"
  /\ CanonicalShape(resolution.input)
  /\ \E i \in 1..Len(resolution.input) : resolution.input[i] = "E"
  /\ \E i \in 1..Len(resolution.input) : resolution.input[i] = "f"
  /\ resolution.result = resolution.input
  /\ resolution.lookups = 0

\* C27: eviction on refresh failure removes only the stale record that
\* triggered the refresh: when two obtain calls for one identity race, a
\* refresh failure in one of them never removes, from memory or from the
\* durable copy, a fresh record that the other call's successful refresh
\* wrote while the failing refresh was in flight.
C27_EvictionSparesFreshRecord ==
  [][\A c \in Slots :
       LET id == calls[c].userId IN
       ( /\ Completes(c)
         /\ calls'[c].status = "error"
         /\ calls[c].rival = "ok"
         /\ id \in DOMAIN userTokenCache
         /\ now < userTokenCache[id].expiresAt )
       => /\ id \in DOMAIN userTokenCache'
          /\ userTokenCache'[id] = userTokenCache[id]
          /\ id \in DOMAIN tokenFile => id \in DOMAIN tokenFile']_vars

\* C28: in every reachable state each record of the store is keyed by the
\* identity of the credentials it holds: the subject embedded in the stored
\* accessToken equals the key of the record, whatever access and refresh
\* credentials the requests supplied, so that no call is served a credential
\* of another identity.
C28_RecordsKeyedBySubject ==
  \A id \in DOMAIN userTokenCache :
    userTokenCache[id].accessToken.kind = "jwt"
      => userTokenCache[id].accessToken.sub = id


\* ---- the resolver against a directory
LookupDone(op) == resolution.pc = "done" /\ resolution.op = op

\* the positions of list whose display name equals name ignoring case
NameHits(list, name) ==
  {i \in 1..Len(list) : LowerStr(list[i].displayName) = LowerStr(name)}

Earliest(hits) == CHOOSE i \in hits : \A j \in hits : i <= j

\* C21: for a non-canonical team name resolveTeamId asks for the caller's
\* memberships first and returns the id of the first team there whose display
\* name equals the name ignoring case, without asking further; only when
\* there is none does it ask for the organization-wide listing and return the
\* first such team there; it returns null when neither listing has a match.
C21_MembershipsBeforeOrganization ==
  ( /\ LookupDone("resolveTeamId")
    /\ resolution.args.team # <<>>
    /\ ~guidPattern(resolution.args.team)
    /\ resolution.cause = NoError )
  => LET name == resolution.args.team
         own == NameHits(resolution.joined, name)
         org == NameHits(resolution.all, name)
     IN /\ resolution.status = "ok"
        /\ IF own # {}
           THEN /\ resolution.asked = <<"/me/joinedTeams">>
                /\ resolution.result = IdResult(resolution.joined[Earliest(own)].id)
           ELSE /\ resolution.asked = <<"/me/joinedTeams", "/teams">>
                /\ resolution.result =
                     IF org # {} THEN IdResult(resolution.all[Earliest(org)].id)
                     ELSE Null

C21_Witness ==
  /\ LookupDone("resolveTeamId")
  /\ Cardinality(NameHits(resolution.joined, resolution.args.team)) = 2
  /\ resolution.joined[1].displayName # resolution.args.team
  /\ resolution.result = IdResult(resolution.joined[1].id)

C21_WitnessOrganization ==
  /\ LookupDone("resolveTeamId")
  /\ resolution.asked = <<"/me/joinedTeams", "/teams">>
  /\ resolution.joined # <<>>
  /\ ~resolution.result.isNull

\* whether meeting m's subject contains title as a case-insensitive substring
TitleIn(m, title) == Includes(LowerStr(m.subject), LowerStr(title))

\* C22: findMeetingId with only a title returns the id of the meeting with
\* the latest start among those whose subject contains the title ignoring
\* case, and null when there is none; with no criteria it returns the meeting
\* with the latest start of the whole list.
C22_LatestTitleMatch ==
  ( /\ LookupDone("findMeetingId")
    /\ resolution.args.organizerEmail = <<>>
    /\ resolution.args.afterDate = 0
    /\ resolution.cause = NoError )
  => LET list == resolution.meetings
         title == resolution.args.title
         matching == {i \in 1..Len(list) : title = <<>> \/ TitleIn(list[i], title)}
     IN /\ resolution.status = "ok"
        /\ IF matching = {} THEN resolution.result = Null
           ELSE \E i \in matching :
                  /\ resolution.result = IdResult(list[i].id)
                  /\ \A j \in matching : list[j].start <= list[i].start

C22_Witness ==
  /\ LookupDone("findMeetingId")
  /\ resolution.args.organizerEmail = <<>>
  /\ resolution.args.afterDate = 0
  /\ resolution.args.title # <<>>
  /\ Len(resolution.meetings) = 2
  /\ \A i \in 1..2 : TitleIn(resolution.meetings[i], resolution.args.title)
  /\ resolution.meetings[1].subject # resolution.meetings[2].subject
  /\ resolution.meetings[1].start < resolution.meetings[2].start
  /\ resolution.result = IdResult(resolution.meetings[2].id)

\* a lookup that failed for the network or for authorization
LookupFailure(error) == error # NoError /\ error.status \in {0, 401, 403}

\* C23: a resolver operation returns null only when every lookup it issued
\* completed and matched nothing; a network or authorization failure of a
\* lookup, other than an authorization failure of the organization-wide team
\* listing, ends the operation with an error, and an operation none of whose
\* lookups failed never ends with an error.
C23_NullOnlyWhenNothingMatched ==
  resolution.pc = "done"
  => LET tolerated == /\ resolution.causeAt = "/teams"
                      /\ resolution.cause.status \in {401, 403}
     IN /\ (resolution.status = "ok" /\ resolution.result.isNull)
             => (~LookupFailure(resolution.cause) \/ tolerated)
        /\ (LookupFailure(resolution.cause) /\ ~tolerated)
             => resolution.status = "error"
        /\ resolution.cause = NoError => resolution.status = "ok"

\* C24: when a lookup of resolveTeamId fails, the error the route handler
\* catches is that same error, with its HTTP status and body, and the status
\* the handler answers with is the one the error carries (500 without one).
C24_LookupErrorUnchanged ==
  (resolution.pc = "done" /\ resolution.status = "error"
     /\ resolution.cause # NoError)
  => /\ resolution.error = resolution.cause
     /\ RouteStatus(resolution) =
          IF resolution.cause.status # 0 THEN resolution.cause.status ELSE 500

\* C29: a non-null result of resolveChannelId carries a channel id and the
\* canonical id of the owning team.
C29_ChannelResultHasTeamId ==
  (LookupDone("resolveChannelId") /\ resolution.status = "ok"
     /\ ~resolution.result.isNull)
  => /\ resolution.result.id # NoId
     /\ resolution.result.teamId # NoId
     /\ guidPattern(resolution.result.teamId)

\* C30: the meeting findMeetingId returns satisfies every criterion that was
\* supplied and has the latest start among the meetings satisfying them; when
\* no meeting satisfies them, an organizer that resolves to no user included,
\* the result is null.
C30_ResultMeetsAllCriteria ==
  (LookupDone("findMeetingId") /\ resolution.status = "ok"
     /\ ~LookupFailure(resolution.cause))
  => LET list == resolution.meetings
         args == resolution.args
         Meets(m) ==
           /\ args.title = <<>> \/ TitleIn(m, args.title)
           /\ args.organizerEmail = <<>>
                \/ (resolution.organizerId # NoId /\ m.organizer = resolution.organizerId)
           /\ args.afterDate = 0 \/ (m.start # 0 /\ m.start >= args.afterDate)
         meeting == {i \in 1..Len(list) : Meets(list[i])}
     IN IF meeting = {} THEN resolution.result = Null
        ELSE \E i \in meeting :
               /\ resolution.result = IdResult(list[i].id)
               /\ \A j \in meeting : list[j].start <= list[i].start


\* ---- request token middleware
Under(path, routes) == \E i \in 1..Len(path) : SubSeq(path, 1, i) \in routes

DelegatedPath(path) ==
  Under(path, {<<"/api", "/discovery">>, <<"/api", "/messaging">>,
               <<"/api", "/meetings">>})

ServicePath(path) ==
  Under(path, {<<"/api", "/teams-provisioning">>, <<"/api", "/admin">>})

Rejected(req, status) ==
  /\ req.pc = "responded" /\ req.status = status
  /\ ~req.next /\ req.attached = "none"

Passed(req, kind) ==
  /\ req.pc = "responded" /\ req.status = 0
  /\ req.next /\ req.attached = kind

\* C25: resolveGraphToken selects the credential by path.  Under a
\* delegated-only route it attaches what obtain yields, answers 401 without
\* calling next when obtain yields nothing, and never asks for the service
\* credential; under an app-only route it attaches the service credential
\* without calling obtain; on any other path it attaches what obtain yields
\* and the service credential when obtain yields nothing; when obtain throws
\* the refresh failure it answers 401 and next is not called.
C25_CredentialByPath ==
  [][ /\ (request.pc = "obtain" /\ calls[1].pc = "done")
           => /\ ~ServicePath(request.path)
              /\ calls[1].status = "ok"
                   => /\ Passed(request', "delegated")
                      /\ request'.delegatedToken = calls[1].result
                      /\ request'.appToken = NoAppToken
              /\ calls[1].status = "error" => Rejected(request', 401)
              /\ calls[1].status = "null"
                   => IF DelegatedPath(request.path) THEN Rejected(request', 401)
                      ELSE /\ request'.pc = "service"
                           /\ ~request'.next /\ request'.attached = "none"
      /\ (request.pc = "service" /\ appCalls[1].pc = "done")
           => /\ ~DelegatedPath(request.path)
              /\ ServicePath(request.path) => request.obtains = 0
              /\ appCalls[1].status = "ok"
                   => /\ Passed(request', "service")
                      /\ request'.appToken = appCalls[1].result
                      /\ request'.delegatedToken = NoToken
              /\ appCalls[1].status = "error" => ~request'.next
      /\ (request'.pc # "idle" /\ DelegatedPath(request'.path))
           => /\ request'.pc # "service"
              /\ request'.attached # "service"
              /\ ~AppInFlight(1)'
      /\ (request'.pc # "idle" /\ ServicePath(request'.path))
           => request'.pc # "obtain" /\ request'.attached # "delegated"
    ]_vars

C25_Witness ==
  /\ request.pc = "responded"
  /\ DelegatedPath(request.path)
  /\ request.accessToken = NoToken
  /\ request.obtains = 1
  /\ Rejected(request, 401)

C25_WitnessFallback ==
  /\ request.pc = "responded"
  /\ request.obtains = 1
  /\ request.exchanges = 1
  /\ Passed(request, "service")

C25_WitnessRefreshFailed ==
  /\ request.pc = "responded"
  /\ request.accessToken # NoToken
  /\ ~DelegatedPath(request.path)
  /\ Rejected(request, 401)


\* ---- server.js, alert webhook
\* C26: the inbound alert webhook needs no Graph credential: a POST to it
\* without Authorization header and without accessToken in the body, while
\* no GRAPH_ACCESS_TOKEN is configured, that has a summary and the shared
\* secret that is configured (if one is), is not answered by the token
\* middleware; with the webhook URL configured it is handed on to the
\* Teams incoming webhook.
C26_AlertNeedsNoGraphToken ==
  ( /\ request.pc = "responded"
    /\ request.method = "POST" /\ request.path = AlertPath
    /\ request.authorization = "none"
    /\ ~request.bodyAccessToken
    /\ ~request.env.GRAPH_ACCESS_TOKEN
    /\ request.summary
    /\ request.env.INBOUND_WEBHOOK_SECRET \in {"", request.sharedSecret} )
  => /\ request.answeredBy = "alert"
     /\ request.env.TEAMS_INCOMING_WEBHOOK_URL => request.forwarding

====
